---- MODULE Spec2Model ----
(***************************************************************************)
(* scripts/issue-migration.py: main() copies the first project board of    *)
(* the source repository (alan-turing-institute/OpenSourceSA), its columns *)
(* and its issues with their labels into the destination repository        *)
(* (sgibson91/open-practices-toolkit) through GhApi.                       *)
(*                                                                         *)
(* One action per remote call of main(); pc is main's position.  The two   *)
(* repositories are the server's state.  Every remote call may be rejected *)
(* by the server (GhApi raises, main has no handler), and every call is    *)
(* recorded in the history variable calls.                                 *)
(***************************************************************************)
EXTENDS Integers, Sequences, FiniteSets, TLC

VARIABLES
    pc,                    \* position in main()
    run,                   \* number of the current invocation of the script
    error,                 \* exception that ended the run, "" if none
    environ,               \* os.environ: the set of variables that are set
    srcBoards,             \* project boards of the source repo, listing order
    srcPages,              \* issues of the source repo, as the pages listed
    dstBoards,             \* project boards of the destination, listing order
    dstLabels,             \* labels of the destination, listing order
    dstIssues,             \* issues of the destination, creation order
    dstLabels0,            \* history: dstLabels before the first run
    dstBoards0,            \* history: dstBoards before the first run
    ossa_project_board,    \* main's locals, named as in the source
    ossa_project_columns,
    optk_project_id,
    column,                \* index of the for loop of line 122
    labels,                \* the cached list of destination label names
    p,                     \* number of the page the paged() iterator is at
    item,                  \* index of the for loop of line 135
    issue_labels,
    label,                 \* index of the for loop of line 146
    calls,                 \* history: every remote call, in order
    ens                    \* history: the current pass of lines 147-149

srcVars == <<environ, srcBoards, srcPages, dstLabels0, dstBoards0>>
dstVars == <<dstBoards, dstLabels, dstIssues>>
boardLocals == <<ossa_project_board, ossa_project_columns, optk_project_id, column>>
issueLocals == <<labels, p, item, issue_labels, label>>
vars == <<pc, run, error, srcVars, dstVars, boardLocals, issueLocals, calls, ens>>

----------------------------------------------------------------------------
(* Bounds of the model *)

MaxIssues == 3      \* issues in the source repository
MaxRuns == 2        \* invocations of the script

(* A list call of the GitHub REST API answers with one page of its listing:
   page 1 unless a page is asked for, of 30 entries unless per_page is given.
   main() lists labels (line 37) and columns (line 108) with one call each and
   no page argument; only the issues are listed through paged() (line 129). *)
PerPage == 30

----------------------------------------------------------------------------
(* Values *)

Range(s) == {s[i] : i \in DOMAIN s}

NoLabel == [name |-> "", color |-> "", description |-> ""]
NoBoard == [id |-> 0, name |-> "", body |-> "", columns |-> <<>>]

Bug == [name |-> "bug", color |-> "ff0000", description |-> "defect"]
Docs == [name |-> "docs", color |-> "0000ff", description |-> "documentation"]
\* a destination label named like Bug, with another colour and description
DstBug == [name |-> "bug", color |-> "d73a4a", description |-> "Something isn't working"]
Filler(i) == [name |-> "l" \o ToString(i), color |-> "ededed", description |-> ""]

IssueKinds ==
    { [title |-> "Bug X", body |-> "repro steps", labels |-> <<Bug>>],
      [title |-> "Write docs", body |-> "todo", labels |-> <<Docs, Bug, Docs>>],
      [title |-> "Plain", body |-> "", labels |-> <<>>] }

RECURSIVE Splits(_)
\* every way of cutting a list of issues into non-empty pages
Splits(list) ==
    IF list = <<>> THEN {<<>>}
    ELSE UNION { { <<SubSeq(list, 1, k)>> \o rest :
                     rest \in Splits(SubSeq(list, k + 1, Len(list))) } :
                 k \in 1..Len(list) }

IssueLists == UNION { [1..n -> IssueKinds] : n \in 0..MaxIssues }

RECURSIVE Flat(_)
Flat(pages) == IF pages = <<>> THEN <<>> ELSE Head(pages) \o Flat(Tail(pages))

Col(n) == [name |-> n]
OSSA == [id |-> 11, name |-> "OSSA", body |-> "desc",
         columns |-> <<Col("To Do"), Col("In Progress"), Col("Done")>>]
Other == [id |-> 12, name |-> "Archive", body |-> "old", columns |-> <<Col("Backlog")>>]
\* a source board with one column more than a page holds
Wide == [id |-> 13, name |-> "Wide", body |-> "many",
         columns |-> [i \in 1..(PerPage + 1) |-> Col("c" \o ToString(i))]]
Old == [id |-> 21, name |-> "Roadmap", body |-> "existing", columns |-> <<Col("Ideas")>>]

DstLabelChoices ==
    { <<>>,
      <<DstBug>>,
      [i \in 1..(PerPage + 1) |-> IF i <= PerPage THEN Filler(i) ELSE Docs] }

\* The two repositories before the first run: every source issue list and
\* page split with every destination label set, and every pair of board
\* listings with a source of at most one issue.
Scenarios ==
    { [srcBoards |-> <<OSSA, Other>>, dstBoards |-> <<>>, srcPages |-> pg, dstLabels |-> dl] :
        pg \in UNION { Splits(l) : l \in IssueLists }, dl \in DstLabelChoices }
    \cup
    { [srcBoards |-> sb, dstBoards |-> db, srcPages |-> pg, dstLabels |-> <<>>] :
        sb \in {<<>>, <<OSSA, Other>>, <<Wide>>}, db \in {<<>>, <<Old>>},
        pg \in {<<>>} \cup {<<<<it>>>> : it \in IssueKinds} }

----------------------------------------------------------------------------
(* The server side of the calls *)

Names(ls) == [i \in DOMAIN ls |-> ls[i].name]
DstLabelNames == Range(Names(dstLabels))

\* the reply to a list call that names no page
FirstPage(listing) ==
    SubSeq(listing, 1, IF Len(listing) < PerPage THEN Len(listing) ELSE PerPage)

\* api.issues.list_labels_for_repo(owner, repo)
list_labels_for_repo(repoLabels) == FirstPage(repoLabels)

\* api.projects.list_columns(ossa_project_id)
list_columns(boards, id) == FirstPage((CHOOSE b \in Range(boards) : b.id = id).columns)

\* get_labels_for_repo: the names of the labels of the reply
get_labels_for_repo(repoLabels) == Names(list_labels_for_repo(repoLabels))

\* the fields create_label_for_repo passes to api.issues.create_label
CreateLabelDropsDescription(label_dict) ==
    [name |-> label_dict.name, color |-> label_dict.color, description |-> ""]
create_label_for_repo(label_dict) ==
    [name |-> label_dict.name, color |-> label_dict.color,
     description |-> label_dict.description]

\* the issue create_issue sends, and the server's issue list afterwards
IssueArgs(it) == [title |-> it.title, body |-> it.body, labels |-> Names(it.labels)]
CreateIssueSkipsExisting(issues, args) ==
    IF args \in Range(issues) THEN issues ELSE Append(issues, args)
create_issue(issues, args) == Append(issues, args)

\* page number pg of paged(api.issues.list_for_repo, ...): empty past the end
PagedOffByOne(pages, pg) == IF pg + 1 <= Len(pages) THEN pages[pg + 1] ELSE <<>>
paged(pages, pg) == IF pg <= Len(pages) THEN pages[pg] ELSE <<>>

\* api.projects.list_for_repo(...)[0]
FirstBoard(boards) == boards[1]

\* label["name"] not in labels is the negation of this
InLabelsAlways(name, cache) == TRUE
InLabels(name, cache) == name \in Range(cache)

\* token is None
TokenCheckDropped(env) == FALSE
TokenMissing(env) == "GITHUB_TOKEN" \notin env

NextBoardId == 1 + (IF dstBoards = <<>> THEN 21
                    ELSE CHOOSE m \in {dstBoards[i].id : i \in DOMAIN dstBoards} :
                           \A i \in DOMAIN dstBoards : dstBoards[i].id <= m)

----------------------------------------------------------------------------
(* History *)

Call(op, ok, arg) == [run |-> run, op |-> op, ok |-> ok, arg |-> arg]
NoArg == [none |-> TRUE]
NoEns == [active |-> FALSE, label |-> NoLabel, absent |-> FALSE,
          before |-> <<>>, start |-> 0, done |-> FALSE]

\* an unhandled exception ends the run where it is
Fail(err) ==
    /\ pc' = "failed"
    /\ error' = err
    /\ UNCHANGED <<run, srcVars, dstVars, boardLocals, issueLocals, ens>>

\* a rejected call: GhApi raises, nothing in main catches it
RejectedIsRetried(op, arg) ==
    /\ calls' = Append(calls, Call(op, FALSE, arg))
    /\ UNCHANGED <<pc, error, run, srcVars, dstVars, boardLocals, issueLocals, ens>>
Rejected(op, arg) ==
    /\ calls' = Append(calls, Call(op, FALSE, arg))
    /\ Fail("HTTPError")

----------------------------------------------------------------------------
Init ==
    /\ pc = "main"
    /\ run = 1
    /\ error = ""
    /\ environ \in {{}, {"GITHUB_TOKEN"}}
    /\ \E sc \in Scenarios :
          /\ srcBoards = sc.srcBoards
          /\ srcPages = sc.srcPages
          /\ dstBoards = sc.dstBoards
          /\ dstLabels = sc.dstLabels
    /\ dstIssues = <<>>
    /\ dstLabels0 = dstLabels
    /\ dstBoards0 = dstBoards
    /\ ossa_project_board = NoBoard
    /\ ossa_project_columns = <<>>
    /\ optk_project_id = 0
    /\ column = 0
    /\ labels = <<>>
    /\ p = 0
    /\ item = 0
    /\ issue_labels = <<>>
    /\ label = 0
    /\ calls = <<>>
    /\ ens = NoEns

----------------------------------------------------------------------------
(* main(), lines 91-157 *)

\* lines 93-101: read the token, raise ValueError when it is missing
ReadToken ==
    /\ pc = "main"
    /\ IF TokenMissing(environ)
       THEN Fail("ValueError")
       ELSE /\ pc' = "list_ossa_projects"
            /\ UNCHANGED <<run, error, srcVars, dstVars, boardLocals, issueLocals, ens>>
    /\ UNCHANGED calls

\* lines 104-107: the first board listed for the source repository
ListOssaProjects ==
    /\ pc = "list_ossa_projects"
    /\ \/ /\ srcBoards # <<>>
          /\ calls' = Append(calls, Call("projects.list_for_repo", TRUE, [repo |-> "src"]))
          /\ ossa_project_board' = FirstBoard(srcBoards)
          /\ pc' = "list_columns"
          /\ UNCHANGED <<run, error, srcVars, dstVars, ossa_project_columns,
                         optk_project_id, column, issueLocals, ens>>
       \/ /\ srcBoards = <<>>     \* [0] of an empty list: IndexError
          /\ calls' = Append(calls, Call("projects.list_for_repo", TRUE, [repo |-> "src"]))
          /\ Fail("IndexError")
       \/ Rejected("projects.list_for_repo", [repo |-> "src"])

\* lines 108-109: the names of the columns of that board
ListColumns ==
    /\ pc = "list_columns"
    /\ \/ /\ calls' = Append(calls, Call("projects.list_columns", TRUE,
                                         [project_id |-> ossa_project_board.id]))
          /\ ossa_project_columns' = Names(list_columns(srcBoards, ossa_project_board.id))
          /\ pc' = "create_project"
          /\ UNCHANGED <<run, error, srcVars, dstVars, ossa_project_board,
                         optk_project_id, column, issueLocals, ens>>
       \/ Rejected("projects.list_columns", [project_id |-> ossa_project_board.id])

\* lines 112-117: create the board at the destination
CreateProject ==
    /\ pc = "create_project"
    /\ \/ /\ calls' = Append(calls, Call("projects.create_for_repo", TRUE,
                 [id |-> NextBoardId, name |-> ossa_project_board.name,
                  body |-> ossa_project_board.body]))
          /\ dstBoards' = Append(dstBoards,
                 [id |-> NextBoardId, name |-> ossa_project_board.name,
                  body |-> ossa_project_board.body, columns |-> <<>>])
          /\ pc' = "list_optk_projects"
          /\ UNCHANGED <<run, error, srcVars, dstLabels, dstIssues, boardLocals,
                         issueLocals, ens>>
       \/ Rejected("projects.create_for_repo",
                   [id |-> 0, name |-> ossa_project_board.name,
                    body |-> ossa_project_board.body])

\* lines 118-121: the id of the first board listed for the destination
ListOptkProjects ==
    /\ pc = "list_optk_projects"
    /\ \/ /\ dstBoards # <<>>
          /\ calls' = Append(calls, Call("projects.list_for_repo", TRUE, [repo |-> "dst"]))
          /\ optk_project_id' = FirstBoard(dstBoards).id
          /\ column' = 1
          /\ pc' = IF ossa_project_columns = <<>> THEN "get_labels" ELSE "create_column"
          /\ UNCHANGED <<run, error, srcVars, dstVars, ossa_project_board,
                         ossa_project_columns, issueLocals, ens>>
       \/ Rejected("projects.list_for_repo", [repo |-> "dst"])

\* lines 122-123: one column per source column name
CreateColumn ==
    /\ pc = "create_column"
    /\ LET name == ossa_project_columns[column]
           arg == [project_id |-> optk_project_id, name |-> name]
       IN \/ /\ calls' = Append(calls, Call("projects.create_column", TRUE, arg))
             /\ dstBoards' = [i \in DOMAIN dstBoards |->
                    IF dstBoards[i].id = optk_project_id
                    THEN [dstBoards[i] EXCEPT !.columns = Append(@, Col(name))]
                    ELSE dstBoards[i]]
             /\ column' = column + 1
             /\ pc' = IF column < Len(ossa_project_columns)
                      THEN "create_column" ELSE "get_labels"
             /\ UNCHANGED <<run, error, srcVars, dstLabels, dstIssues,
                            ossa_project_board, ossa_project_columns, optk_project_id,
                            issueLocals, ens>>
          \/ Rejected("projects.create_column", arg)

\* line 126: labels = get_labels_for_repo(api); line 129 builds the iterator
GetLabels ==
    /\ pc = "get_labels"
    /\ \/ /\ calls' = Append(calls, Call("issues.list_labels_for_repo", TRUE, NoArg))
          /\ labels' = get_labels_for_repo(dstLabels)
          /\ p' = 1
          /\ pc' = "fetch_page"
          /\ UNCHANGED <<run, error, srcVars, dstVars, boardLocals, item,
                         issue_labels, label, ens>>
       \/ Rejected("issues.list_labels_for_repo", NoArg)

\* line 134: the iterator asks for page p and stops at the first empty page
FetchPage ==
    /\ pc = "fetch_page"
    /\ \/ /\ calls' = Append(calls, Call("issues.list_for_repo", TRUE, [page |-> p]))
          /\ item' = 1
          /\ pc' = IF paged(srcPages, p) = <<>> THEN "done" ELSE "item"
          /\ UNCHANGED <<run, error, srcVars, dstVars, boardLocals, labels, p,
                         issue_labels, label, ens>>
       \/ Rejected("issues.list_for_repo", [page |-> p])

\* lines 135-143: the next issue of the page and the dictionaries of its labels
NextItem ==
    /\ pc = "item"
    /\ LET page == paged(srcPages, p)
       IN IF item <= Len(page)
          THEN /\ issue_labels' = page[item].labels
               /\ label' = 1
               /\ pc' = IF page[item].labels = <<>> THEN "create_issue" ELSE "ensure"
               /\ UNCHANGED p
          ELSE /\ p' = p + 1
               /\ pc' = "fetch_page"
               /\ UNCHANGED <<issue_labels, label>>
    /\ UNCHANGED <<run, error, srcVars, dstVars, boardLocals, labels, item, calls, ens>>

\* line 147: if label["name"] not in labels
CheckLabel ==
    /\ pc = "ensure"
    /\ LET cur == issue_labels[label]
           found == InLabels(cur.name, labels)
       IN /\ ens' = [active |-> TRUE, label |-> cur,
                     absent |-> cur.name \notin DstLabelNames,
                     before |-> dstLabels, start |-> Len(calls), done |-> found]
          /\ IF found
             THEN /\ label' = label + 1
                  /\ pc' = IF label < Len(issue_labels) THEN "ensure" ELSE "create_issue"
             ELSE /\ pc' = "create_label"
                  /\ UNCHANGED label
    /\ UNCHANGED <<run, error, srcVars, dstVars, boardLocals, labels, p, item,
                   issue_labels, calls>>

\* line 148: create_label_for_repo(api, label); the server refuses a name it has
CreateLabel ==
    /\ pc = "create_label"
    /\ LET arg == create_label_for_repo(issue_labels[label])
       IN \/ /\ arg.name \notin DstLabelNames
             /\ calls' = Append(calls, Call("issues.create_label", TRUE, arg))
             /\ dstLabels' = Append(dstLabels, arg)
             /\ pc' = "refresh_labels"
             /\ UNCHANGED <<run, error, srcVars, dstBoards, dstIssues, boardLocals,
                            issueLocals, ens>>
          \/ Rejected("issues.create_label", arg)

\* line 149: labels = get_labels_for_repo(api)
RefreshLabels ==
    /\ pc = "refresh_labels"
    /\ \/ /\ calls' = Append(calls, Call("issues.list_labels_for_repo", TRUE, NoArg))
          /\ labels' = get_labels_for_repo(dstLabels)
          /\ label' = label + 1
          /\ pc' = IF label < Len(issue_labels) THEN "ensure" ELSE "create_issue"
          /\ ens' = [ens EXCEPT !.done = TRUE]
          /\ UNCHANGED <<run, error, srcVars, dstVars, boardLocals, p, item,
                         issue_labels>>
       \/ Rejected("issues.list_labels_for_repo", NoArg)

\* lines 152-157: create the copy of the issue
CreateIssue ==
    /\ pc = "create_issue"
    /\ LET arg == IssueArgs(paged(srcPages, p)[item])
       IN \/ /\ calls' = Append(calls, Call("issues.create", TRUE, arg))
             /\ dstIssues' = create_issue(dstIssues, arg)
             /\ item' = item + 1
             /\ pc' = "item"
             /\ UNCHANGED <<run, error, srcVars, dstBoards, dstLabels, boardLocals,
                            labels, p, issue_labels, label, ens>>
          \/ Rejected("issues.create", arg)

\* lines 160-161: the script is run again after a complete run
Rerun ==
    /\ pc = "done"
    /\ run < MaxRuns
    /\ run' = run + 1
    /\ pc' = "main"
    /\ ossa_project_board' = NoBoard
    /\ ossa_project_columns' = <<>>
    /\ optk_project_id' = 0
    /\ column' = 0
    /\ labels' = <<>>
    /\ p' = 0
    /\ item' = 0
    /\ issue_labels' = <<>>
    /\ label' = 0
    /\ ens' = NoEns
    /\ UNCHANGED <<error, srcVars, dstVars, calls>>

Next ==
    \/ ReadToken
    \/ ListOssaProjects
    \/ ListColumns
    \/ CreateProject
    \/ ListOptkProjects
    \/ CreateColumn
    \/ GetLabels
    \/ FetchPage
    \/ NextItem
    \/ CheckLabel
    \/ CreateLabel
    \/ RefreshLabels
    \/ CreateIssue
    \/ Rerun

Spec == Init /\ [][Next]_vars

----------------------------------------------------------------------------
(* Reading the history *)

CallsOf(r, op) ==
    LET Test(c) == c.run = r /\ c.op = op IN SelectSeq(calls, Test)
OkCalls(op) ==
    LET Test(c) == c.op = op /\ c.ok IN SelectSeq(calls, Test)
Args(cs) == [i \in DOMAIN cs |-> cs[i].arg]
\* create_label calls of the current run issued after call number k
CreatesSince(k) ==
    Cardinality({i \in (k + 1)..Len(calls) :
                   calls[i].op = "issues.create_label" /\ calls[i].run = run})
\* what the copy of source issue it is to be
Expected(it) ==
    [title |-> it.title, body |-> it.body,
     labels |-> [i \in DOMAIN it.labels |-> it.labels[i].name]]
AfterBoard == {"get_labels", "fetch_page", "item", "ensure", "create_label",
               "refresh_labels", "create_issue", "done"}
RECURSIVE AllColumns(_)
AllColumns(boards) ==
    IF boards = <<>> THEN <<>> ELSE Head(boards).columns \o AllColumns(Tail(boards))

----------------------------------------------------------------------------
(* Claims *)

\* C1: no create_label call is issued for a label name that the destination
\* already has at the moment of the call, and a pass of lines 147-149 for a
\* label whose name the destination has issues no create_label call and
\* leaves the destination's labels unchanged.
C1_NeverCreatesExistingLabel ==
    /\ pc = "create_label" => issue_labels[label].name \notin DstLabelNames
    /\ (ens.active /\ ~ens.absent) =>
          (CreatesSince(ens.start) = 0 /\ dstLabels = ens.before)

\* C2: a pass of lines 147-149 for a label whose name the destination lacks
\* issues exactly one create_label call, with the label's name, color and
\* description, and the destination then has a label of that name.
C2_AbsentLabelCreatedOnce ==
    (ens.active /\ ens.absent) =>
        /\ CreatesSince(ens.start) <= 1
        /\ pc = "create_label" => CreatesSince(ens.start) = 0
        /\ ens.done =>
              /\ CreatesSince(ens.start) = 1
              /\ \E i \in (ens.start + 1)..Len(calls) :
                    /\ calls[i].op = "issues.create_label"
                    /\ calls[i].ok
                    /\ calls[i].arg = ens.label
              /\ ens.label.name \in DstLabelNames
              /\ ens.label \in Range(dstLabels)
C2_Witness == ens.active /\ ens.absent /\ ens.done

\* C3: every create-issue call carries the title, the body and the label names
\* of its source issue, each label name it passes is in the destination when
\* the call is made, and every create_label call for those names came before.
C3_LabelsExistBeforeIssue ==
    /\ pc = "create_issue" =>
          \A i \in DOMAIN issue_labels : issue_labels[i].name \in DstLabelNames
    /\ \A i \in DOMAIN calls :
          calls[i].op = "issues.create" =>
             LET k == Cardinality({j \in 1..i : calls[j].op = "issues.create"
                                                /\ calls[j].run = calls[i].run})
                 fl == Flat(srcPages)
             IN /\ k <= Len(fl)
                /\ calls[i].arg = Expected(fl[k])
                /\ \A n \in Range(calls[i].arg.labels) :
                      \/ n \in Range(Names(dstLabels0))
                      \/ \E j \in 1..(i - 1) :
                            /\ calls[j].op = "issues.create_label"
                            /\ calls[j].ok
                            /\ calls[j].arg.name = n
                /\ \A j \in (i + 1)..Len(calls) :
                      (calls[j].op = "issues.create_label" /\ calls[j].ok)
                         => calls[j].arg.name \notin Range(calls[i].arg.labels)
C3_Witness ==
    \E i \in DOMAIN calls :
        /\ calls[i].op = "issues.create"
        /\ calls[i].ok
        /\ Len(calls[i].arg.labels) = 3
        /\ \E j \in 1..(i - 1) :
              /\ calls[j].op = "issues.create_label"
              /\ calls[j].ok
              /\ calls[j].arg.name \in Range(calls[i].arg.labels)

\* C4: a run that completes has issued exactly one create-issue call per source
\* issue, all accepted, in the order of the pages and of the issues in each
\* page, and has asked for pages 1, 2, ... up to the first empty one.
C4_OneIssuePerSourceIssueInOrder ==
    pc = "done" =>
        LET ic == CallsOf(run, "issues.create")
            pf == CallsOf(run, "issues.list_for_repo")
            fl == Flat(srcPages)
        IN /\ Len(ic) = Len(fl)
           /\ \A k \in DOMAIN ic : ic[k].ok /\ ic[k].arg = Expected(fl[k])
           /\ Len(pf) = Len(srcPages) + 1
           /\ \A k \in DOMAIN pf : pf[k].arg.page = k
C4_Witness ==
    /\ pc = "done"
    /\ Len(srcPages) = 2
    /\ Len(srcPages[1]) = 2
    /\ Len(srcPages[2]) = 1
    /\ srcPages[1][1] # srcPages[1][2]
    /\ srcPages[1][2] # srcPages[2][1]

\* C5: each run issues at most one board-creation call, with the name and body
\* of the first board listed for the source, and after it one column-creation
\* call per column of that board, with the names in the listing's order.
C5_BoardAndColumnsReplicated ==
    LET bc == CallsOf(run, "projects.create_for_repo")
        cc == CallsOf(run, "projects.create_column")
    IN IF srcBoards = <<>>
       THEN bc = <<>> /\ cc = <<>> /\ pc \notin AfterBoard
       ELSE /\ Len(bc) <= 1
            /\ \A k \in DOMAIN bc :
                  /\ bc[k].arg.name = srcBoards[1].name
                  /\ bc[k].arg.body = srcBoards[1].body
            /\ cc # <<>> => (bc # <<>> /\ bc[1].ok)
            /\ Len(cc) <= Len(srcBoards[1].columns)
            /\ \A k \in DOMAIN cc : cc[k].arg.name = srcBoards[1].columns[k].name
            /\ \A i, j \in DOMAIN calls :
                  (/\ calls[i].op = "projects.create_column"
                   /\ calls[j].op = "projects.create_for_repo"
                   /\ calls[i].run = calls[j].run) => j < i
            /\ pc \in AfterBoard =>
                  /\ Len(bc) = 1
                  /\ Len(cc) = Len(srcBoards[1].columns)
                  /\ \A k \in DOMAIN cc : cc[k].ok
C5_Witness ==
    /\ pc = "get_labels"
    /\ Len(CallsOf(run, "projects.create_column")) = 3

\* C6: with the token variable unset main raises ValueError and no remote call
\* is ever recorded.
C6_NoCallWithoutToken ==
    "GITHUB_TOKEN" \notin environ =>
        /\ calls = <<>>
        /\ pc \in {"main", "failed"}
        /\ pc = "failed" => error = "ValueError"
        /\ dstBoards = dstBoards0 /\ dstLabels = dstLabels0 /\ dstIssues = <<>>
C6_Witness == "GITHUB_TOKEN" \notin environ /\ pc = "failed"

\* C7: a rejected call is the last call of the history and leaves the run
\* failed, and the destination holds exactly what the accepted calls created.
C7_RejectedCallEndsRun ==
    /\ \A i \in DOMAIN calls :
          ~calls[i].ok => (i = Len(calls) /\ pc = "failed" /\ error = "HTTPError")
    /\ dstLabels = dstLabels0 \o Args(OkCalls("issues.create_label"))
    /\ dstIssues = Args(OkCalls("issues.create"))
    /\ Len(dstBoards) = Len(dstBoards0) + Len(OkCalls("projects.create_for_repo"))
    /\ Len(AllColumns(dstBoards)) =
          Len(AllColumns(dstBoards0)) + Len(OkCalls("projects.create_column"))
C7_Witness ==
    /\ pc = "failed"
    /\ error = "HTTPError"
    /\ dstIssues # <<>>
    /\ calls[Len(calls)].op = "issues.create"
    /\ ~calls[Len(calls)].ok

\* C8: a complete run that follows complete runs has created every source
\* issue once more (the destination holds each source issue once per run) and
\* has issued no create_label call for a label an earlier run created.
C8_RerunDuplicatesIssues ==
    (pc = "done" /\ run >= 2) =>
        LET fl == Flat(srcPages)
        IN /\ Len(CallsOf(run, "issues.create")) = Len(fl)
           /\ Len(dstIssues) = run * Len(fl)
           /\ \A k \in DOMAIN dstIssues :
                 dstIssues[k] = Expected(fl[((k - 1) % Len(fl)) + 1])
           /\ \A i, j \in DOMAIN calls :
                 (/\ calls[i].op = "issues.create_label"
                  /\ calls[i].run = run
                  /\ calls[j].op = "issues.create_label"
                  /\ calls[j].ok
                  /\ calls[j].run < run) => calls[i].arg.name # calls[j].arg.name
C8_Witness ==
    /\ pc = "done"
    /\ run = 2
    /\ Len(dstIssues) = 2 * MaxIssues
    /\ \E j \in DOMAIN calls :
          calls[j].op = "issues.create_label" /\ calls[j].ok /\ calls[j].run = 1

\* C9: every column-creation call names the board that the board-creation call
\* of the same run created.
C9_ColumnsUnderCreatedBoard ==
    \A i \in DOMAIN calls :
        calls[i].op = "projects.create_column" =>
            \E j \in 1..(i - 1) :
                /\ calls[j].op = "projects.create_for_repo"
                /\ calls[j].ok
                /\ calls[j].run = calls[i].run
                /\ calls[j].arg.id = calls[i].arg.project_id

\* C10: a completed run has listed the destination's labels once plus once per
\* accepted create_label call, and at every test of line 147 the cached list
\* holds exactly the label names the destination has.
C10_CacheMirrorsDestination ==
    /\ pc = "done" =>
          Len(CallsOf(run, "issues.list_labels_for_repo")) =
             1 + Len(LET T(c) == c.ok IN SelectSeq(CallsOf(run, "issues.create_label"), T))
    /\ pc = "ensure" => Range(labels) = DstLabelNames

====
